---- MODULE Spec2Model ----
(***************************************************************************)
(* Model of the slot suggestion code of src/calender_api.py.               *)
(*                                                                         *)
(* Time.  A datetime in the request timezone is an integer: the seconds    *)
(* of wall-clock time since local midnight of day 0.  An ISO-8601 string   *)
(* with offset is a record [wall, off, ok]: the wall-clock reading, the    *)
(* UTC offset written in the string, and whether the string parses.  The   *)
(* absolute instant of a string is wall - off.                             *)
(*                                                                         *)
(* Timezone.  tzinfo = ZoneInfo(tz) is a record [cut, before, after]: the  *)
(* instant of the one transition the searched days can meet and the UTC    *)
(* offsets before and after it.  Two readings of the default zone are      *)
(* modelled: the week of the repository's tests (2025-09-22, -04:00        *)
(* throughout) and the day clocks go forward (2026-03-08, 02:00 -05:00     *)
(* becomes 03:00 -04:00).  Datetimes that share one tzinfo are compared    *)
(* and added on the wall clock, as Python does.                            *)
(***************************************************************************)
EXTENDS Integers, Sequences, FiniteSets, TLC

VARIABLES
    pc,         \* position of the one call of suggest_slots: idle, freebusy, done
    request,    \* the keyword arguments of the call
    fb_body,    \* the FreeBusy query body sent (timeMin, timeMax)
    busy_raw,   \* the busy list the code works on (line 126 or line 129)
    fb_failed,  \* the FreeBusy query raised HttpError
    outcome,    \* what the call gave back: a slot list or a raised exception
    merge_arg,  \* the argument of a call of _merge_intervals
    merge_out,  \* what _merge_intervals(merge_arg) returned
    merge_out2, \* what _merge_intervals returned when given merge_out
    merge_pc,   \* position of the merge calls: start, merged, remerged
    free_pc,    \* position of a call of is_free: idle, query, done
    free_slot,  \* the slot is_free was called with
    free_body,  \* the FreeBusy query is_free sent
    free_resp,  \* the response the query returned
    free_failed,    \* the query raised HttpError
    free_result,    \* what is_free returned: "none" before it returns
    tool_pc,    \* position of find_free_slots: idle, loop, returned, raised
    busy_slots, \* the events the calendar listed for the target day
    duration_minutes,   \* the argument of find_free_slots
    current_time,   \* the loop variable of find_free_slots
    free_slots, \* what find_free_slots gave back
    agent_pc,   \* position of run_on_latest_email: idle, calendar, done
    agent_input,    \* what the mailbox and the AI analysis gave the agent
    sent_replies,   \* the replies send_reply was called with
    agent_result,   \* what run_on_latest_email gave back
    svc_pc,     \* position of find_free_time_slots: idle, events, done
    svc_args,   \* its arguments: start_date, end_date, duration_minutes
    svc_events, \* the events get_events handed to it
    svc_result, \* the list find_free_time_slots returned
    oauth_session,  \* request.session["oauth_state"] of each browser session
    token_store,    \* the Token table: user_email -> the row, or NoRow
    oauth_last, \* the last request to /auth and how it was answered
    mailbox,    \* the labels of each message of the account, once arrived
    account_labels, \* the names of the labels that exist in the account
    reply_count,    \* how many automated replies each message was sent
    gmail_last  \* how the last /gmail/peek_one_and_reply was answered

call_vars == <<pc, request, fb_body, busy_raw, fb_failed, outcome>>
merge_vars == <<merge_arg, merge_out, merge_out2, merge_pc>>
free_vars ==
    <<free_pc, free_slot, free_body, free_resp, free_failed, free_result>>
tool_vars ==
    <<tool_pc, busy_slots, duration_minutes, current_time, free_slots>>
agent_vars == <<agent_pc, agent_input, sent_replies, agent_result>>
svc_vars == <<svc_pc, svc_args, svc_events, svc_result>>
oauth_vars == <<oauth_session, token_store, oauth_last>>
gmail_vars == <<mailbox, account_labels, reply_count, gmail_last>>

\* What each call leaves alone
outside_call ==
    <<merge_vars, free_vars, tool_vars, agent_vars, svc_vars, oauth_vars,
      gmail_vars>>
outside_merge ==
    <<call_vars, free_vars, tool_vars, agent_vars, svc_vars, oauth_vars,
      gmail_vars>>
outside_free ==
    <<call_vars, merge_vars, tool_vars, agent_vars, svc_vars, oauth_vars,
      gmail_vars>>
outside_agent ==
    <<call_vars, merge_vars, free_vars, svc_vars, oauth_vars, gmail_vars>>
outside_svc ==
    <<call_vars, merge_vars, free_vars, tool_vars, agent_vars, oauth_vars,
      gmail_vars>>
outside_oauth ==
    <<call_vars, merge_vars, free_vars, tool_vars, agent_vars, svc_vars,
      gmail_vars>>
outside_gmail ==
    <<call_vars, merge_vars, free_vars, tool_vars, agent_vars, svc_vars,
      oauth_vars>>

vars ==
    <<call_vars, merge_vars, free_vars, tool_vars, agent_vars, svc_vars,
      oauth_vars, gmail_vars>>

-----------------------------------------------------------------------------
(* Bounds of the model *)

MaxBusy == 2        \* longest busy list the FreeBusy reply carries
MaxDays == 2        \* largest value of the argument `days`
MaxIntervals == 3   \* longest list handed to _merge_intervals on its own
MaxTime == 4        \* interval endpoints are 10:00 plus 0..MaxTime half hours

-----------------------------------------------------------------------------
(* Time arithmetic: timedelta(minutes=..), timedelta(days=..) *)

Minutes(m) == m * 60
Hours(h) == h * 3600
Days(n) == n * 86400
At(d, h, m, s) == Days(d) + Hours(h) + Minutes(m) + s

Min(a, b) == IF a <= b THEN a ELSE b
Max(a, b) == IF a >= b THEN a ELSE b

\* The default zone America/Indiana/Indianapolis in the week of 2025-09-22
\* (day 0), the dates of the repository's tests: -04:00, no transition
IndianapolisSeptember ==
    [cut |-> 0, before |-> 0 - Hours(4), after |-> 0 - Hours(4)]

\* The same zone on 2026-03-08 (day 0): at 07:00Z the clock goes from
\* 02:00 -05:00 to 03:00 -04:00
IndianapolisMarch ==
    [cut |-> At(0, 7, 0, 0), before |-> 0 - Hours(5), after |-> 0 - Hours(4)]

\* tzinfo.utcoffset of an instant
utcoffset_at(tz, instant) == IF instant < tz.cut THEN tz.before ELSE tz.after

\* tzinfo.utcoffset of a wall-clock reading (fold = 0): a reading the clock
\* skips takes the offset before the transition
utcoffset(tz, wall) == IF wall < tz.cut + tz.after THEN tz.before ELSE tz.after

Iso(wall, off) == [wall |-> wall, off |-> off, ok |-> TRUE]
BadIso == [wall |-> 0, off |-> 0, ok |-> FALSE]

\* The absolute instant an ISO string denotes
Instant(iso) == iso.wall - iso.off

\* date_parser.isoparse: an aware datetime carrying the string's own offset
iso_to_dt(iso) == [wall |-> iso.wall, off |-> iso.off]

\* datetime.astimezone(tzinfo): the same instant read on the zone's clock
astimezone(dt, tz) == (dt.wall - dt.off) + utcoffset_at(tz, dt.wall - dt.off)

\* datetime.isoformat() of a datetime of the request zone
dt_to_iso(dt, tz) == Iso(dt, utcoffset(tz, dt))

\* datetime.date(): the calendar day of a datetime of the request zone
date(dt) == dt \div Days(1)

\* datetime.minute and datetime.second
minute_of(dt) == (dt % Hours(1)) \div Minutes(1)
second_of(dt) == dt % Minutes(1)

-----------------------------------------------------------------------------
(* _merge_intervals *)

RECURSIVE InsertByStart(_, _)
InsertByStart(sorted, x) ==
    IF sorted = <<>> THEN <<x>>
    ELSE IF x[1] < Head(sorted)[1] THEN <<x>> \o sorted
    ELSE <<Head(sorted)>> \o InsertByStart(Tail(sorted), x)

\* sorted(intervals, key=lambda x: x[0]): stable
RECURSIVE sorted_by_start(_)
sorted_by_start(intervals) ==
    IF intervals = <<>> THEN <<>>
    ELSE InsertByStart(sorted_by_start(SubSeq(intervals, 1, Len(intervals) - 1)),
                       intervals[Len(intervals)])

\* The loop with merged[-1] = (last_start, end): the later end always wins
RECURSIVE merge_fold_later_end(_, _)
merge_fold_later_end(merged, rest) ==
    IF rest = <<>> THEN merged
    ELSE LET start == Head(rest)[1]
             end == Head(rest)[2]
             last_start == merged[Len(merged)][1]
             last_end == merged[Len(merged)][2]
         IN  IF start <= last_end
             THEN merge_fold_later_end([merged EXCEPT ![Len(merged)] =
                                          <<last_start, end>>], Tail(rest))
             ELSE merge_fold_later_end(Append(merged, <<start, end>>), Tail(rest))

\* The loop with the test start <= last_start: only equal starts are merged
RECURSIVE merge_fold_last_start(_, _)
merge_fold_last_start(merged, rest) ==
    IF rest = <<>> THEN merged
    ELSE LET start == Head(rest)[1]
             end == Head(rest)[2]
             last_start == merged[Len(merged)][1]
             last_end == merged[Len(merged)][2]
         IN  IF start <= last_start
             THEN merge_fold_last_start([merged EXCEPT ![Len(merged)] =
                                            <<last_start, Max(last_end, end)>>],
                                        Tail(rest))
             ELSE merge_fold_last_start(Append(merged, <<start, end>>),
                                        Tail(rest))

\* The loop with the test start < last_end: touching intervals stay apart
RECURSIVE merge_fold_strict(_, _)
merge_fold_strict(merged, rest) ==
    IF rest = <<>> THEN merged
    ELSE LET start == Head(rest)[1]
             end == Head(rest)[2]
             last_start == merged[Len(merged)][1]
             last_end == merged[Len(merged)][2]
         IN  IF start < last_end
             THEN merge_fold_strict([merged EXCEPT ![Len(merged)] =
                                        <<last_start, Max(last_end, end)>>],
                                    Tail(rest))
             ELSE merge_fold_strict(Append(merged, <<start, end>>), Tail(rest))

RECURSIVE merge_fold(_, _)
merge_fold(merged, rest) ==
    IF rest = <<>> THEN merged
    ELSE LET start == Head(rest)[1]
             end == Head(rest)[2]
             last_start == merged[Len(merged)][1]
             last_end == merged[Len(merged)][2]
         IN  IF start <= last_end
             THEN merge_fold([merged EXCEPT ![Len(merged)] =
                                <<last_start, Max(last_end, end)>>], Tail(rest))
             ELSE merge_fold(Append(merged, <<start, end>>), Tail(rest))

\* The loop testing start against the end of the interval read just before,
\* not against the end of the running merged interval
RECURSIVE fold_previous_end(_, _, _)
fold_previous_end(merged, previous_end, rest) ==
    IF rest = <<>> THEN merged
    ELSE LET start == Head(rest)[1]
             end == Head(rest)[2]
             last_start == merged[Len(merged)][1]
             last_end == merged[Len(merged)][2]
         IN  IF start <= previous_end
             THEN fold_previous_end([merged EXCEPT ![Len(merged)] =
                                        <<last_start, Max(last_end, end)>>],
                                    end, Tail(rest))
             ELSE fold_previous_end(Append(merged, <<start, end>>), end,
                                    Tail(rest))

merge_intervals_previous_end(intervals) ==
    IF intervals = <<>> THEN <<>>
    ELSE LET intervals_sorted == sorted_by_start(intervals)
         IN  fold_previous_end(<<Head(intervals_sorted)>>,
                               Head(intervals_sorted)[2], Tail(intervals_sorted))

merge_intervals(intervals) ==
    IF intervals = <<>> THEN <<>>
    ELSE LET intervals_sorted == sorted_by_start(intervals)
         IN  merge_fold(<<Head(intervals_sorted)>>, Tail(intervals_sorted))

-----------------------------------------------------------------------------
(* suggest_slots *)

day_work_range(req, d) ==
    <<Days(d) + req.working_start, Days(d) + req.working_end>>

\* lines 131-139: entries that do not parse are skipped
RECURSIVE convert_busy(_, _)
convert_busy(raw, tz) ==
    IF raw = <<>> THEN <<>>
    ELSE LET b == Head(raw)
         IN  IF b.start.ok /\ b.end.ok
             THEN << <<astimezone(iso_to_dt(b.start), tz),
                       astimezone(iso_to_dt(b.end), tz)>> >>
                  \o convert_busy(Tail(raw), tz)
             ELSE convert_busy(Tail(raw), tz)

\* The while loop with the test cur < end_dt: the duration is not looked at
RECURSIVE starts_from_before_end(_, _, _, _)
starts_from_before_end(cur, end_dt, duration_min, step_minutes) ==
    IF cur < end_dt
    THEN <<cur>> \o starts_from_before_end(cur + Minutes(step_minutes), end_dt,
                                           duration_min, step_minutes)
    ELSE <<>>

\* The while loop with the fit test cur + duration < end_dt
RECURSIVE starts_from_strict_fit(_, _, _, _)
starts_from_strict_fit(cur, end_dt, duration_min, step_minutes) ==
    IF cur + Minutes(duration_min) < end_dt
    THEN <<cur>> \o starts_from_strict_fit(cur + Minutes(step_minutes), end_dt,
                                           duration_min, step_minutes)
    ELSE <<>>

RECURSIVE starts_from(_, _, _, _)
starts_from(cur, end_dt, duration_min, step_minutes) ==
    IF cur + Minutes(duration_min) <= end_dt
    THEN <<cur>> \o starts_from(cur + Minutes(step_minutes), end_dt,
                                duration_min, step_minutes)
    ELSE <<>>

\* generate_aligned_starts without lines 149-150: the start is rounded down
generate_aligned_starts_round_down(start_dt, end_dt, duration_min, step_minutes) ==
    LET minute == (minute_of(start_dt) \div step_minutes) * step_minutes
        base == start_dt - Minutes(minute_of(start_dt)) - second_of(start_dt)
                + Minutes(minute)
    IN  starts_from(base, end_dt, duration_min, step_minutes)

\* generate_aligned_starts with replace(minute=minute) only: seconds kept
generate_aligned_starts_keep_seconds(start_dt, end_dt, duration_min, step_minutes) ==
    LET minute == (minute_of(start_dt) \div step_minutes) * step_minutes
        replaced == start_dt - Minutes(minute_of(start_dt)) + Minutes(minute)
        base == IF replaced < start_dt THEN replaced + Minutes(step_minutes)
                ELSE replaced
    IN  starts_from(base, end_dt, duration_min, step_minutes)

\* The finite sequence the generator yields (step_minutes > 0)
generate_aligned_starts(start_dt, end_dt, duration_min, step_minutes) ==
    LET minute == (minute_of(start_dt) \div step_minutes) * step_minutes
        replaced == start_dt - Minutes(minute_of(start_dt)) - second_of(start_dt)
                    + Minutes(minute)
        base == IF replaced < start_dt THEN replaced + Minutes(step_minutes)
                ELSE replaced
    IN  starts_from(base, end_dt, duration_min, step_minutes)

Slot(candidate_start, duration_min, tz) ==
    LET candidate_end == candidate_start + Minutes(duration_min)
    IN  [start_iso |-> dt_to_iso(candidate_start, tz),
         end_iso |-> dt_to_iso(candidate_end, tz)]

\* lines 178-184 and 193-199: append each candidate, stop at the cap
RECURSIVE append_candidates(_, _, _)
append_candidates(req, suggestions, starts) ==
    IF starts = <<>> THEN suggestions
    ELSE LET appended == Append(suggestions,
                                Slot(Head(starts), req.duration_min, req.tz))
         IN  IF Len(appended) >= req.max_suggestions THEN appended
             ELSE append_candidates(req, appended, Tail(starts))

\* Lines 167-172 without the test of line 169: an interval outside the day's
\* window is kept and cut at the window's ends
RECURSIVE clip_to_day_keep_outside(_, _, _)
clip_to_day_keep_outside(busy_intervals, day_start, day_end) ==
    IF busy_intervals = <<>> THEN <<>>
    ELSE LET bstart == Head(busy_intervals)[1]
             bend == Head(busy_intervals)[2]
         IN  << <<Max(bstart, day_start), Min(bend, day_end)>> >>
             \o clip_to_day_keep_outside(Tail(busy_intervals), day_start,
                                         day_end)

\* lines 167-172
RECURSIVE clip_to_day(_, _, _)
clip_to_day(busy_intervals, day_start, day_end) ==
    IF busy_intervals = <<>> THEN <<>>
    ELSE LET bstart == Head(busy_intervals)[1]
             bend == Head(busy_intervals)[2]
             rest == clip_to_day(Tail(busy_intervals), day_start, day_end)
         IN  IF bend <= day_start \/ bstart >= day_end THEN rest
             ELSE << <<Max(bstart, day_start), Min(bend, day_end)>> >> \o rest

overlapping_of(busy_intervals, day_start, day_end) ==
    merge_intervals(clip_to_day(busy_intervals, day_start, day_end))

\* The walk without line 188: the pointer never moves past a busy block
RECURSIVE candidate_ranges_pointer_stays(_, _, _)
candidate_ranges_pointer_stays(overlapping, pointer, day_end) ==
    IF overlapping = <<>> THEN << <<pointer, day_end>> >>
    ELSE LET bstart == Head(overlapping)[1]
         IN  << <<pointer, bstart>> >>
             \o candidate_ranges_pointer_stays(Tail(overlapping), pointer,
                                               day_end)

\* lines 174-193: the ranges handed to generate_aligned_starts, in order:
\* pointer to each busy start, then pointer to day_end
RECURSIVE candidate_ranges(_, _, _)
candidate_ranges(overlapping, pointer, day_end) ==
    IF overlapping = <<>> THEN << <<pointer, day_end>> >>
    ELSE LET bstart == Head(overlapping)[1]
             bend == Head(overlapping)[2]
         IN  << <<pointer, bstart>> >>
             \o candidate_ranges(Tail(overlapping), Max(pointer, bend), day_end)

\* lines 160-164
day_start_of(req, anchor_dt, single_day) ==
    LET day_start == day_work_range(req, single_day)[1]
    IN  IF single_day = date(anchor_dt) THEN Max(day_start, anchor_dt)
        ELSE day_start

day_ranges(req, anchor_dt, busy_intervals, single_day) ==
    LET day_start == day_start_of(req, anchor_dt, single_day)
        day_end == day_work_range(req, single_day)[2]
    IN  candidate_ranges(overlapping_of(busy_intervals, day_start, day_end),
                         day_start, day_end)

\* lines 176-199: walk the ranges, leaving both loops once the cap is reached
RECURSIVE walk_ranges(_, _, _)
walk_ranges(req, ranges, suggestions) ==
    IF ranges = <<>> THEN suggestions
    ELSE LET appended ==
                 append_candidates(req, suggestions,
                     generate_aligned_starts(Head(ranges)[1], Head(ranges)[2],
                                             req.duration_min, req.step_minutes))
         IN  IF Len(appended) >= req.max_suggestions THEN appended
             ELSE walk_ranges(req, Tail(ranges), appended)

\* line 157: single_day runs over start_date + n, n in range(days + 1)
RECURSIVE day_loop(_, _, _, _, _)
day_loop(req, anchor_dt, busy_intervals, n, suggestions) ==
    LET start_date == date(anchor_dt)
        end_date == date(anchor_dt + Days(req.days))
    IN  IF n >= (end_date - start_date) + 1 THEN suggestions
        ELSE IF Len(suggestions) >= req.max_suggestions THEN suggestions
        ELSE day_loop(req, anchor_dt, busy_intervals, n + 1,
                 walk_ranges(req,
                     day_ranges(req, anchor_dt, busy_intervals, start_date + n),
                     suggestions))

\* lines 202-208
RECURSIVE unique_of(_, _)
unique_of(suggestions, seen) ==
    IF suggestions = <<>> THEN <<>>
    ELSE LET s == Head(suggestions)
             key == <<s.start_iso, s.end_iso>>
         IN  IF key \notin seen
             THEN <<s>> \o unique_of(Tail(suggestions), seen \cup {key})
             ELSE unique_of(Tail(suggestions), seen)

\* seq[:n] for n >= 0
Take(seq, n) == SubSeq(seq, 1, Min(n, Len(seq)))

\* The generator body runs when a day is scanned: start_dt.minute // 0 raises
raises_zero_division(req) ==
    /\ req.step_minutes = 0
    /\ req.days + 1 >= 1
    /\ ~(0 >= req.max_suggestions)

Returned(slots) == [kind |-> "ok", slots |-> slots]
Raised(exception) == [kind |-> exception, slots |-> <<>>]

\* Same function raising when it has found no slot
suggest_slots_raise_when_empty(req, raw) ==
    LET anchor_dt == astimezone(iso_to_dt(req.anchor_iso), req.tz)
        busy_intervals == merge_intervals(convert_busy(raw, req.tz))
        suggestions == day_loop(req, anchor_dt, busy_intervals, 0, <<>>)
    IN  IF raises_zero_division(req) THEN Raised("ZeroDivisionError")
        ELSE IF suggestions = <<>> THEN Raised("ValueError")
        ELSE Returned(Take(unique_of(suggestions, {}), req.max_suggestions))

\* Same function with the cap handled one too high
suggest_slots_cap_off_by_one(req, raw) ==
    LET capped == [req EXCEPT !.max_suggestions = @ + 1]
        anchor_dt == astimezone(iso_to_dt(req.anchor_iso), req.tz)
        busy_intervals == merge_intervals(convert_busy(raw, req.tz))
        suggestions == day_loop(capped, anchor_dt, busy_intervals, 0, <<>>)
    IN  IF raises_zero_division(capped) THEN Raised("ZeroDivisionError")
        ELSE Returned(Take(unique_of(suggestions, {}), capped.max_suggestions))

\* lines 99-100 and 131-209, on the busy list of line 126 or 129
suggest_slots(req, raw) ==
    LET anchor_dt == astimezone(iso_to_dt(req.anchor_iso), req.tz)
        busy_intervals == merge_intervals(convert_busy(raw, req.tz))
        suggestions == day_loop(req, anchor_dt, busy_intervals, 0, <<>>)
    IN  IF raises_zero_division(req) THEN Raised("ZeroDivisionError")
        ELSE Returned(Take(unique_of(suggestions, {}), req.max_suggestions))

\* lines 103-124
freebusy_body(req) ==
    LET anchor_dt == astimezone(iso_to_dt(req.anchor_iso), req.tz)
        start_date == date(anchor_dt)
        end_date == date(anchor_dt + Days(req.days))
    IN  [timeMin |-> dt_to_iso(day_work_range(req, start_date)[1], req.tz),
         timeMax |-> dt_to_iso(day_work_range(req, end_date)[2], req.tz)]

-----------------------------------------------------------------------------
(* The inputs of a call *)

DefaultMaxSuggestions == 3

\* An unbounded cap: more than the starts the searched days can hold (a grid
\* of at least one minute gives a day fewer than 24 * 60 + 2 starts)
Unbounded == (MaxDays + 2) * 24 * 60

Edt == IndianapolisSeptember.after
Est == IndianapolisMarch.before

Request(a, du, dy, w, z, c, st) ==
    [anchor_iso |-> a, duration_min |-> du, days |-> dy,
     working_start |-> w[1], working_end |-> w[2], tz |-> z,
     max_suggestions |-> c, step_minutes |-> st]

Anchors ==
    { Iso(At(0, 8, 0, 0), Edt),      \* 08:00 local, before working hours
      Iso(At(0, 13, 30, 0), 0),      \* 13:30Z = 09:30 local, on the grid
      Iso(At(0, 9, 40, 20), Edt),    \* 09:40:20 local, off the grid
      Iso(At(0, 12, 30, 0), Edt) }   \* 12:30 local, after working hours

WorkingHours ==
    { <<At(0, 9, 0, 0), At(0, 12, 0, 0)>>,
      <<At(0, 9, 10, 0), At(0, 11, 40, 0)>>,
      <<At(0, 12, 0, 0), At(0, 9, 0, 0)>> }

Durations == {0, 30, 45}
Steps == {0, 30, 45, 90}
Caps == {0, 1, DefaultMaxSuggestions, Unbounded}

\* Calls in the week of 2025-09-22
RequestsSeptember ==
    { Request(a, du, dy, w, IndianapolisSeptember, c, st) :
        a \in Anchors, du \in Durations, dy \in 0..MaxDays,
        w \in WorkingHours, c \in Caps, st \in Steps }

\* Calls on 2026-03-08, anchor 00:30 -05:00, working hours 01:00-04:00; the
\* duration of 240 minutes is longer than the working window
RequestsMarch ==
    { Request(Iso(At(0, 0, 30, 0), Est), du, dy,
              <<At(0, 1, 0, 0), At(0, 4, 0, 0)>>, IndianapolisMarch, c, st) :
        du \in {30, 45, 240}, dy \in 0..MaxDays,
        c \in {1, DefaultMaxSuggestions, Unbounded}, st \in {30, 45} }

Requests == RequestsSeptember \cup RequestsMarch

Busy(start, end) == [start |-> start, end |-> end]

\* Busy entries of the calendar in the week of 2025-09-22
BusyEntriesSeptember ==
    { Busy(Iso(At(0, 10, 0, 0), Edt), Iso(At(0, 10, 30, 0), Edt)),
      Busy(Iso(At(0, 14, 15, 0), 0), Iso(At(0, 15, 0, 0), 0)),
      Busy(Iso(At(0, 9, 0, 0), Edt), Iso(At(0, 12, 0, 0), Edt)),
      Busy(Iso(At(1, 9, 30, 0), Edt), Iso(At(1, 10, 0, 0), Edt)),
      Busy(Iso(At(0, 10, 30, 0), Edt), Iso(At(0, 11, 0, 0), Edt)),
      Busy(Iso(At(0, 9, 15, 30), Edt), Iso(At(0, 9, 50, 10), Edt)),
      Busy(Iso(At(0, 11, 0, 0), Edt), Iso(At(0, 10, 30, 0), Edt)),
      Busy(BadIso, Iso(At(0, 11, 0, 0), Edt)) }

\* Busy entries of the calendar on 2026-03-08; the last one covers every
\* searched day
BusyEntriesMarch ==
    { Busy(Iso(At(0, 1, 0, 0), Est), Iso(At(0, 1, 50, 0), Est)),
      Busy(Iso(At(0, 3, 0, 0), Edt), Iso(At(0, 3, 30, 0), Edt)),
      Busy(Iso(At(0, 6, 30, 0), 0), Iso(At(0, 7, 0, 0), 0)),
      Busy(Iso(At(0, 0, 0, 0), Est), Iso(At(MaxDays + 2, 0, 0, 0), Edt)) }

BusyEntries(tz) ==
    IF tz = IndianapolisMarch THEN BusyEntriesMarch ELSE BusyEntriesSeptember

BusyLists(tz) == UNION { [1..n -> BusyEntries(tz)] : n \in 0..MaxBusy }

NoRequest ==
    [anchor_iso |-> BadIso, duration_min |-> 0, days |-> 0,
     working_start |-> 0, working_end |-> 0, tz |-> IndianapolisSeptember,
     max_suggestions |-> 0, step_minutes |-> 0]

NoBody == [timeMin |-> BadIso, timeMax |-> BadIso]

-----------------------------------------------------------------------------
(* is_free *)

\* A dict with no key
EmptyDict == [k \in {} |-> {}]

\* dict.get(key, default)
get(dict, key, default) ==
    IF key \in DOMAIN dict THEN dict[key] ELSE default

\* lines 48-53: the query asks for the slot's range on the primary calendar
is_free_body(slot) ==
    [timeMin |-> slot.start_iso, timeMax |-> slot.end_iso,
     timeZone |-> slot.tz, items |-> <<[id |-> "primary"]>>]

\* line 55
busy_of(resp) ==
    get(get(get(resp, "calendars", EmptyDict), "primary", EmptyDict),
        "busy", <<>>)

\* A version that looks at the entry of the primary calendar, not its list
is_free_when_primary_empty(resp) ==
    get(get(resp, "calendars", EmptyDict), "primary", EmptyDict) = EmptyDict

\* lines 55-58: what is_free returns on a response
is_free_on_response(resp) == Len(busy_of(resp)) = 0

\* A version that takes a failed query for a free calendar
is_free_on_http_error_free == TRUE

\* lines 59-62: what is_free returns when the query raised HttpError
is_free_on_http_error == FALSE

(* is_free: the inputs of a call *)

NoSlot == [start_iso |-> BadIso, end_iso |-> BadIso, tz |-> "none"]

TimeZoneName == "America/Indiana/Indianapolis"

\* Slots of 2025-09-22, the last with its end before its start
FreeSlots ==
    { [start_iso |-> Iso(At(0, 10, 0, 0), Edt),
       end_iso |-> Iso(At(0, 10, 30, 0), Edt), tz |-> TimeZoneName],
      [start_iso |-> Iso(At(0, 14, 0, 0), 0),
       end_iso |-> Iso(At(0, 15, 0, 0), 0), tz |-> "UTC"],
      [start_iso |-> Iso(At(0, 11, 0, 0), Edt),
       end_iso |-> Iso(At(0, 10, 0, 0), Edt), tz |-> TimeZoneName] }

FreeBusyLists == UNION { [1..n -> BusyEntriesSeptember] : n \in 0..MaxBusy }

\* Responses of the FreeBusy query: with the busy list of the primary
\* calendar, with the busy list of another calendar only, with an entry of
\* the primary calendar that carries errors and no list, and with keys missing
FreeBusyResponses ==
    { [kind |-> "calendar#freeBusy",
       calendars |-> [primary |-> [busy |-> b]]] : b \in FreeBusyLists }
    \cup { [kind |-> "calendar#freeBusy",
            calendars |-> [other |-> [busy |-> b]]] : b \in FreeBusyLists }
    \cup { [kind |-> "calendar#freeBusy",
            calendars |-> [primary |-> [errors |-> <<"notFound">>]]],
          [kind |-> "calendar#freeBusy",
           calendars |-> [primary |-> EmptyDict]],
          [kind |-> "calendar#freeBusy", calendars |-> EmptyDict],
          EmptyDict }

-----------------------------------------------------------------------------
(* CalendarTool.find_free_slots (src/server/calendar_service.py) *)

\* What a name holds before it is assigned, and Python's None
NoValue == [kind |-> "unset"]
None == [kind |-> "None"]
NoDatetime == [wall |-> 0, off |-> 0]

\* A datetime handed back by a call
DatetimeValue(dt) == [kind |-> "datetime", wall |-> dt.wall, off |-> dt.off]

\* An exception that leaves a call
RaisedValue(exception) == [kind |-> "raised", exception |-> exception]

\* line 11: the default of duration_minutes
DefaultDurationMinutes == 60

\* lines 18-19: 09:00 and 17:00 of the target day, in the calendar's zone
start_of_day == [wall |-> At(0, 9, 0, 0), off |-> Edt]
end_of_day == [wall |-> At(0, 17, 0, 0), off |-> Edt]

\* dt + timedelta(minutes=m)
plus_minutes(dt, m) == [wall |-> dt.wall + Minutes(m), off |-> dt.off]

\* datetime.fromisoformat of a string with an offset
fromisoformat(iso) == [wall |-> iso.wall, off |-> iso.off]

\* lines 36-37 raise TypeError on an event without dateTime (an all-day
\* event): event['start'].get('dateTime') is None
has_datetimes(event) ==
    /\ "dateTime" \in DOMAIN event.start
    /\ "dateTime" \in DOMAIN event.end

\* A version that also counts an event that only touches the candidate
overlap_or_touch(cur, minutes, event) ==
    LET event_start == fromisoformat(event.start.dateTime)
        event_end == fromisoformat(event.end.dateTime)
    IN  Max(Instant(cur), Instant(event_start))
            <= Min(Instant(plus_minutes(cur, minutes)), Instant(event_end))

\* lines 36-40: the overlap test, datetimes compared as instants
overlap(cur, minutes, event) ==
    LET event_start == fromisoformat(event.start.dateTime)
        event_end == fromisoformat(event.end.dateTime)
    IN  Max(Instant(cur), Instant(event_start))
            < Min(Instant(plus_minutes(cur, minutes)), Instant(event_end))

\* lines 35-43: the index of the event at which the for loop stops, by
\* raising or by an overlap; 0 when it runs to its end
RECURSIVE stopping_event(_, _, _, _)
stopping_event(events, i, cur, minutes) ==
    IF i > Len(events) THEN 0
    ELSE IF ~has_datetimes(events[i]) THEN i
    ELSE IF overlap(cur, minutes, events[i]) THEN i
    ELSE stopping_event(events, i + 1, cur, minutes)

\* A version that wants the candidate to end before 17:00
fits_before_end(cur, minutes) ==
    Instant(plus_minutes(cur, minutes)) < Instant(end_of_day)

\* line 33: the condition of the while loop
fits(cur, minutes) ==
    Instant(plus_minutes(cur, minutes)) <= Instant(end_of_day)

(* find_free_slots: the inputs of a call *)

MaxEvents == 2      \* longest list of events the calendar returns

TimedEvent(start, end) ==
    [start |-> [dateTime |-> start], end |-> [dateTime |-> end]]

AllDayEvent == [start |-> [date |-> 0], end |-> [date |-> 1]]

\* Events of the target day: adjacent, overlapping and nested ones, one
\* given in UTC that fills 09:00-17:00, one across each end of the day, one
\* of zero length, one with its end before its start, and an all-day event
ToolEvents ==
    { TimedEvent(Iso(At(0, 9, 0, 0), Edt), Iso(At(0, 10, 0, 0), Edt)),
      TimedEvent(Iso(At(0, 10, 0, 0), Edt), Iso(At(0, 11, 0, 0), Edt)),
      TimedEvent(Iso(At(0, 9, 30, 0), Edt), Iso(At(0, 10, 30, 0), Edt)),
      TimedEvent(Iso(At(0, 9, 0, 0), Edt), Iso(At(0, 16, 30, 0), Edt)),
      TimedEvent(Iso(At(0, 13, 0, 0), 0), Iso(At(0, 21, 0, 0), 0)),
      TimedEvent(Iso(At(0, 8, 0, 0), Edt), Iso(At(0, 9, 30, 0), Edt)),
      TimedEvent(Iso(At(0, 16, 30, 0), Edt), Iso(At(0, 17, 30, 0), Edt)),
      TimedEvent(Iso(At(0, 9, 0, 0), Edt), Iso(At(0, 9, 0, 0), Edt)),
      TimedEvent(Iso(At(0, 10, 0, 0), Edt), Iso(At(0, 9, 0, 0), Edt)),
      AllDayEvent }

EventLists == UNION { [1..n -> ToolEvents] : n \in 0..MaxEvents }

ToolDurations == {0, 30, DefaultDurationMinutes, 450, 480, 510}

-----------------------------------------------------------------------------
(* SchedulingAgent.run_on_latest_email (src/server/agent_service.py) *)

\* line 124: re.search(r'<(.+?)>', sender_info) on a string given as its
\* characters: the pairs (i, j) with '<' at i, '>' at j and at least one
\* character, none a newline, between them
angle_pairs(sender_info) ==
    { p \in (DOMAIN sender_info) \X (DOMAIN sender_info) :
        /\ sender_info[p[1]] = "<"
        /\ sender_info[p[2]] = ">"
        /\ p[2] > p[1] + 1
        /\ \A k \in (p[1] + 1)..(p[2] - 1) : sender_info[k] # "\n" }

\* line 128: group(1) of the match, the leftmost '<' and the nearest '>'
sender_email(sender_info) ==
    LET pairs == angle_pairs(sender_info)
        first == CHOOSE p \in pairs :
                    \A q \in pairs :
                        \/ p[1] < q[1]
                        \/ (p[1] = q[1] /\ p[2] <= q[2])
    IN  SubSeq(sender_info, first[1] + 1, first[2] - 1)

\* lines 94-95: what list_recent_emails gave is a non-empty list
is_email_list(latest_emails) ==
    /\ latest_emails.kind = "list"
    /\ latest_emails.items # <<>>

\* lines 94-114, 144-146: the result of the call when it ends without
\* asking the calendar; NoValue when it goes on to find_free_slots
result_before_calendar(input) ==
    IF ~is_email_list(input.latest_emails)
    THEN [status |-> "No new emails to process or an error occurred."]
    ELSE IF input.email_body.has_error
    THEN [status |-> "Failed"]
    ELSE IF input.analysis.kind = "raised"
    THEN [status |-> "Failed"]
    ELSE IF ~get(input.analysis.json, "isMeetingSuggested", FALSE)
    THEN [status |-> "Complete"]
    ELSE NoValue

\* line 118 on a value of find_free_slots: not free_slots or not
\* isinstance(free_slots, list)
no_slot_list(value) ==
    \/ value.kind = "None"
    \/ (value.kind = "list" /\ value.items = <<>>)
    \/ value.kind # "list"

\* line 121 on the datetime: the slot proposed in the reply
proposed_time(value) ==
    IF value.kind = "list" THEN value.items[1] ELSE value

\* lines 118-143: the result once find_free_slots has returned, and the
\* reply that was sent
result_after_calendar(input, value) ==
    LET sender_info == input.latest_emails.items[1].from
    IN  IF no_slot_list(value)
        THEN [result |-> [status |-> "Action Failed",
                          reason |-> "Could not find any free slots."],
              replies |-> <<>>]
        ELSE IF angle_pairs(sender_info) = {}
        THEN [result |-> [status |-> "Action Failed",
                          reason |->
                              "Could not parse sender's email address."],
              replies |-> <<>>]
        ELSE [result |-> [status |-> "Action Complete"],
              replies |-> <<[to |-> sender_email(sender_info),
                             subject |-> input.latest_emails.items[1].subject,
                             time |-> proposed_time(value)]>>]

(* run_on_latest_email: the inputs of a call *)

\* Values of the From header, as characters
Senders ==
    { <<"A", " ", "<", "a", "@", "x", ">">>,
      <<"a", "@", "x">>,
      <<"<", ">">>,
      <<"<", ">", "a", ">">> }

Email(sender) == [id |-> "m1", subject |-> "Lunch", from |-> sender]

\* What list_recent_emails returns: a list of summaries or a string
LatestEmails ==
    { [kind |-> "list", items |-> <<Email(s)>>] : s \in Senders }
        \cup { [kind |-> "str", items |-> <<>>] }

\* What the analysis returns or raises
Analyses ==
    { [kind |-> "json", json |-> [isMeetingSuggested |-> TRUE]],
      [kind |-> "json", json |-> [isMeetingSuggested |-> FALSE]],
      [kind |-> "json", json |-> EmptyDict],
      [kind |-> "raised", json |-> EmptyDict] }

\* has_error: the text of the body, in lower case, contains "error"
AgentInputs ==
    [latest_emails : LatestEmails,
     email_body : { [has_error |-> e] : e \in BOOLEAN },
     analysis : Analyses]

NoAgentInput ==
    [latest_emails |-> [kind |-> "str", items |-> <<>>],
     email_body |-> [has_error |-> FALSE],
     analysis |-> [kind |-> "raised", json |-> EmptyDict]]

-----------------------------------------------------------------------------
(* CalendarService.find_free_time_slots
   (src/ai_scheduler_py/server/calendar_api.py) *)

\* A datetime without tzinfo has no offset; one with tzinfo has
naive(wall) == [wall |-> wall]
aware(wall, off) == [wall |-> wall, off |-> off]
is_aware(dt) == "off" \in DOMAIN dt

\* The point of the time line a datetime is ordered by, among datetimes of
\* its own kind
moment(dt) == IF is_aware(dt) THEN dt.wall - dt.off ELSE dt.wall

\* Comparing a naive with an aware datetime raises TypeError
comparable(a, b) == is_aware(a) = is_aware(b)

later_minutes(dt, m) == [dt EXCEPT !.wall = dt.wall + Minutes(m)]

\* lines 229-237: the events with a dateTime at both ends, as busy periods
RECURSIVE busy_periods_of(_)
busy_periods_of(events) ==
    IF events = <<>> THEN <<>>
    ELSE LET event == Head(events)
         IN  (IF has_datetimes(event)
              THEN <<[start |-> aware(event.start.dateTime.wall,
                                      event.start.dateTime.off),
                      end |-> aware(event.end.dateTime.wall,
                                    event.end.dateTime.off)]>>
              ELSE <<>>)
             \o busy_periods_of(Tail(events))

\* line 240: list.sort by start, a stable sort
RECURSIVE insert_period(_, _)
insert_period(sorted, period) ==
    IF sorted = <<>> THEN <<period>>
    ELSE IF moment(period.start) < moment(Head(sorted).start)
         THEN <<period>> \o sorted
         ELSE <<Head(sorted)>> \o insert_period(Tail(sorted), period)

RECURSIVE sort_periods(_)
sort_periods(periods) ==
    IF periods = <<>> THEN <<>>
    ELSE insert_period(sort_periods(SubSeq(periods, 1, Len(periods) - 1)),
                       periods[Len(periods)])

\* A version that always moves to the end of the busy period
next_current_time_no_max(cur, period) == period.end

\* line 255
next_current_time(cur, period) ==
    IF moment(cur) >= moment(period.end) THEN cur ELSE period.end

\* lines 246-264: the walk over the sorted busy periods and the check after
\* the last one; the state is the list so far, or the exception raised
RECURSIVE walk_periods(_, _, _, _, _)
walk_periods(periods, cur, end_date, minutes, found) ==
    IF periods = <<>>
    THEN IF ~comparable(cur, end_date) THEN RaisedValue("TypeError")
         ELSE IF moment(later_minutes(cur, minutes)) <= moment(end_date)
         THEN [kind |-> "list",
               items |-> Append(found, [start |-> cur, end |-> end_date])]
         ELSE [kind |-> "list", items |-> found]
    ELSE LET period == Head(periods)
         IN  IF ~comparable(cur, period.start)
             THEN RaisedValue("TypeError")
             ELSE walk_periods(
                     Tail(periods), next_current_time(cur, period),
                     end_date, minutes,
                     IF moment(later_minutes(cur, minutes))
                            <= moment(period.start)
                     THEN Append(found,
                                 [start |-> cur, end |-> period.start])
                     ELSE found)

\* lines 218-267: what the call returns on the events it was handed; an
\* exception is caught and turned into the empty list
find_free_time_slots(args, events) ==
    LET walked == walk_periods(sort_periods(busy_periods_of(events)),
                               args.start_date, args.end_date,
                               args.duration_minutes, <<>>)
    IN  IF walked.kind = "list" THEN walked.items ELSE <<>>

(* find_free_time_slots: the inputs of a call *)

Utc == 0

\* Search periods: 09:00-12:00 given with tzinfo UTC, the same three hours
\* given at -04:00, given without tzinfo, and given with tzinfo at one end
SearchPeriods ==
    { <<aware(At(0, 9, 0, 0), Utc), aware(At(0, 12, 0, 0), Utc)>>,
      <<aware(At(0, 5, 0, 0), Edt), aware(At(0, 8, 0, 0), Edt)>>,
      <<naive(At(0, 9, 0, 0)), naive(At(0, 12, 0, 0))>>,
      <<aware(At(0, 9, 0, 0), Utc), naive(At(0, 12, 0, 0))>> }

ServiceDurations == {0, 30, DefaultDurationMinutes, 180, 240}

ServiceArguments ==
    { [start_date |-> p[1], end_date |-> p[2], duration_minutes |-> m,
       service |-> s] :
        p \in SearchPeriods, m \in ServiceDurations, s \in BOOLEAN }

NoArguments ==
    [start_date |-> naive(0), end_date |-> naive(0), duration_minutes |-> 0,
     service |-> FALSE]

\* Events of the calendar: overlapping, nested and adjacent ones, one of
\* zero length, one across each end of the search period, one that covers
\* it, one given at -04:00, and an all-day event
ServiceEvents ==
    { TimedEvent(Iso(At(0, 9, 30, 0), Utc), Iso(At(0, 10, 0, 0), Utc)),
      TimedEvent(Iso(At(0, 9, 45, 0), Utc), Iso(At(0, 10, 30, 0), Utc)),
      TimedEvent(Iso(At(0, 9, 15, 0), Utc), Iso(At(0, 11, 0, 0), Utc)),
      TimedEvent(Iso(At(0, 10, 30, 0), Utc), Iso(At(0, 11, 0, 0), Utc)),
      TimedEvent(Iso(At(0, 10, 0, 0), Utc), Iso(At(0, 10, 0, 0), Utc)),
      TimedEvent(Iso(At(0, 8, 0, 0), Utc), Iso(At(0, 9, 30, 0), Utc)),
      TimedEvent(Iso(At(0, 11, 30, 0), Utc), Iso(At(0, 12, 30, 0), Utc)),
      TimedEvent(Iso(At(0, 8, 30, 0), Utc), Iso(At(0, 12, 30, 0), Utc)),
      TimedEvent(Iso(At(0, 6, 30, 0), Edt), Iso(At(0, 7, 30, 0), Edt)),
      AllDayEvent }

\* lines 73-80: the listing is asked for the events between timeMin and
\* timeMax, those that end after the first and start before the second
in_search_period(event, args) ==
    \/ ~has_datetimes(event)
    \/ /\ Instant(event.end.dateTime) > moment(args.start_date)
       /\ Instant(event.start.dateTime) < moment(args.end_date)

ServiceEventLists(args) ==
    UNION { [1..n -> { e \in ServiceEvents : in_search_period(e, args) }] :
                n \in 0..MaxEvents }

-----------------------------------------------------------------------------
(* /auth/google and /auth/callback (src/ai_scheduler_py/server/oauth.py) *)

\* Browser sessions, each with its own request.session
Browsers == {"b1", "b2"}

\* Values of the state parameter: the ones flow.authorization_url issues,
\* and one nobody issued
IssuedStates == {"s1", "s2"}
States == IssuedStates \cup {"forged"}

\* request.session.get("oauth_state") of a session that holds none
NoState == "None"

UserEmails == {"ann@example.com", "bob@example.com"}
AccessTokens == {"at1", "at2"}
RefreshTokens == {"rt1", "None"}

NoRow == [present |-> FALSE]

\* A row of the Token table (state.py lines 8-12)
Token(access_token, refresh_token) ==
    [present |-> TRUE, access_token |-> access_token,
     refresh_token |-> refresh_token]

\* What the token endpoint and the Gmail profile answer for a code: the
\* exchange fails, or it yields credentials of a user
Exchanges ==
    { [ok |-> FALSE] }
        \cup { [ok |-> TRUE, user_email |-> u, token |-> a,
                refresh_token |-> r] :
                 u \in UserEmails, a \in AccessTokens, r \in RefreshTokens }

NoRequestYet ==
    [endpoint |-> "none", browser |-> "none", state |-> NoState,
     status |-> 0]

Answered(endpoint, browser, state, status) ==
    [endpoint |-> endpoint, browser |-> browser, state |-> state,
     status |-> status]

\* A version that lets the callback through when the session holds no state
state_rejected_only_when_saved(saved_state, state) ==
    saved_state # NoState /\ saved_state # state

\* line 51: not saved_state or saved_state != state
state_rejected(saved_state, state) ==
    saved_state = NoState \/ saved_state # state

\* lines 64-76: the row written for the user; refresh_token is a required
\* column, so a new row without one fails at commit and nothing is written
persisted(store, exchange) ==
    LET existing == store[exchange.user_email]
    IN  IF existing.present
        THEN [store EXCEPT ![exchange.user_email] =
                 Token(exchange.token,
                       IF exchange.refresh_token # "None"
                       THEN exchange.refresh_token
                       ELSE existing.refresh_token)]
        ELSE IF exchange.refresh_token = "None" THEN store
        ELSE [store EXCEPT ![exchange.user_email] =
                 Token(exchange.token, exchange.refresh_token)]

-----------------------------------------------------------------------------
(* /gmail/peek_one_and_reply (src/ai_scheduler_py/server/main.py and
   gmail_api.py) *)

MaxMessages == 2    \* messages that arrive in the mailbox
MaxReplies == 2     \* automated replies the model lets one message receive

\* Messages in the order they arrive: a larger number is a newer message
Messages == 1..MaxMessages

SystemLabels == {"INBOX", "UNREAD"}

\* The labels of a message that has not arrived
NotArrived == {"not arrived"}

\* line 39: messages().list returns at most this many
ListMaxResults == 10

\* The newest first, as messages().list orders them
RECURSIVE newest_first(_)
newest_first(ids) ==
    IF ids = {} THEN <<>>
    ELSE LET newest == CHOOSE m \in ids : \A other \in ids : other <= m
         IN  <<newest>> \o newest_first(ids \ {newest})

\* gmail_api.py lines 38-40: the unread messages of the inbox
list_unread(box) ==
    LET hits == newest_first({ m \in Messages :
                    {"INBOX", "UNREAD"} \subseteq box[m] })
    IN  SubSeq(hits, 1, Min(Len(hits), ListMaxResults))

\* gmail_api.py lines 13-24: the label exists afterwards
ensure_labels(labels, add) == labels \cup add

\* gmail_api.py lines 26-35: labels added to and removed from a message;
\* a label to remove that does not exist in the account is skipped
add_labels(box, labels, m, add, remove) ==
    [box EXCEPT ![m] = (box[m] \ (remove \cap labels)) \cup add]

\* Where a request can fail: a Gmail call raises and the handler ends there
FailurePoints == {"none", "get_message", "send", "finish"}

-----------------------------------------------------------------------------
(* The call as a state machine *)

NoOutcome == [kind |-> "none", slots |-> <<>>]

\* No call of suggest_slots has been made
CallAtRest ==
    /\ pc = "idle"
    /\ request = NoRequest
    /\ fb_body = NoBody
    /\ busy_raw = <<>>
    /\ fb_failed = FALSE
    /\ outcome = NoOutcome

\* No call of _merge_intervals on its own has been made
MergeAtRest ==
    /\ merge_arg = <<>>
    /\ merge_out = <<>>
    /\ merge_out2 = <<>>
    /\ merge_pc = "start"

\* No call of is_free has been made
FreeAtRest ==
    /\ free_pc = "idle"
    /\ free_slot = NoSlot
    /\ free_body = EmptyDict
    /\ free_resp = EmptyDict
    /\ free_failed = FALSE
    /\ free_result = "none"

\* No call of find_free_slots has been made
ToolAtRest ==
    /\ tool_pc = "idle"
    /\ busy_slots = <<>>
    /\ duration_minutes = 0
    /\ current_time = NoDatetime
    /\ free_slots = NoValue

\* No call of run_on_latest_email has been made
AgentAtRest ==
    /\ agent_pc = "idle"
    /\ agent_input = NoAgentInput
    /\ sent_replies = <<>>
    /\ agent_result = NoValue

\* No call of find_free_time_slots has been made
ServiceAtRest ==
    /\ svc_pc = "idle"
    /\ svc_args = NoArguments
    /\ svc_events = <<>>
    /\ svc_result = <<>>

\* No request to /auth has been made: no session holds a state and the
\* Token table is empty
OAuthAtRest ==
    /\ oauth_session = [b \in Browsers |-> NoState]
    /\ token_store = [u \in UserEmails |-> NoRow]
    /\ oauth_last = NoRequestYet

\* An empty mailbox with the labels every account has, and no request to
\* /gmail/peek_one_and_reply yet
GmailAtRest ==
    /\ mailbox = [m \in Messages |-> NotArrived]
    /\ account_labels = SystemLabels
    /\ reply_count = [m \in Messages |-> 0]
    /\ gmail_last = [status |-> 0, replied_to |-> 0]

Init ==
    /\ CallAtRest
    /\ MergeAtRest
    /\ FreeAtRest
    /\ ToolAtRest
    /\ AgentAtRest
    /\ ServiceAtRest
    /\ OAuthAtRest
    /\ GmailAtRest

\* lines 99-125: the call builds the query and sends it
Call ==
    /\ pc = "idle"
    /\ \E req \in Requests :
        /\ request' = req
        /\ fb_body' = freebusy_body(req)
    /\ pc' = "freebusy"
    /\ UNCHANGED <<busy_raw, fb_failed, outcome>>
    /\ UNCHANGED outside_call

\* lines 125-126, 131-209: the query answers and the call runs to its end
FreeBusyReturn ==
    /\ pc = "freebusy"
    /\ \E raw \in BusyLists(request.tz) :
        /\ busy_raw' = raw
        /\ outcome' = suggest_slots(request, raw)
    /\ pc' = "done"
    /\ UNCHANGED <<request, fb_body, fb_failed>>
    /\ UNCHANGED outside_call

\* lines 127-129, 131-209: the query raises HttpError, busy_raw = []
FreeBusyError ==
    /\ pc = "freebusy"
    /\ fb_failed' = TRUE
    /\ busy_raw' = <<>>
    /\ outcome' = suggest_slots(request, <<>>)
    /\ pc' = "done"
    /\ UNCHANGED <<request, fb_body>>
    /\ UNCHANGED outside_call

Next == Call \/ FreeBusyReturn \/ FreeBusyError

Spec == Init /\ [][Next]_vars

-----------------------------------------------------------------------------
(* _merge_intervals on its own: the inputs of a call *)

\* Datetimes of one morning, half an hour apart
Times == { At(0, 10, 0, 0) + Minutes(30 * k) : k \in 0..MaxTime }

\* Every (start, end) with start < end, and two the code also accepts: one
\* of zero width and one with end before start
Intervals ==
    { x \in Times \X Times : x[1] < x[2] }
        \cup { <<At(0, 10, 30, 0), At(0, 10, 30, 0)>>,
               <<At(0, 11, 0, 0), At(0, 10, 0, 0)>> }

\* Lists in every order, with repetitions
IntervalLists == UNION { [1..n -> Intervals] : n \in 0..MaxIntervals }

(* _merge_intervals on its own: the calls as a state machine *)

MergeInit ==
    /\ CallAtRest
    /\ FreeAtRest
    /\ ToolAtRest
    /\ AgentAtRest
    /\ ServiceAtRest
    /\ OAuthAtRest
    /\ GmailAtRest
    /\ merge_arg \in IntervalLists
    /\ merge_out = <<>>
    /\ merge_out2 = <<>>
    /\ merge_pc = "start"

\* lines 65-76: the call on the input
MergeCall ==
    /\ merge_pc = "start"
    /\ merge_out' = merge_intervals(merge_arg)
    /\ merge_pc' = "merged"
    /\ UNCHANGED <<merge_arg, merge_out2>>
    /\ UNCHANGED outside_merge

\* lines 65-76: the call on the output of the first call
MergeAgain ==
    /\ merge_pc = "merged"
    /\ merge_out2' = merge_intervals(merge_out)
    /\ merge_pc' = "remerged"
    /\ UNCHANGED <<merge_arg, merge_out>>
    /\ UNCHANGED outside_merge

MergeNext == MergeCall \/ MergeAgain

MergeSpec == MergeInit /\ [][MergeNext]_vars

-----------------------------------------------------------------------------
(* is_free: the call as a state machine *)

\* Before the call nothing has run
FreeInit == Init

\* lines 47-54: the call builds the query and sends it
IsFreeCall ==
    /\ free_pc = "idle"
    /\ \E slot \in FreeSlots :
        /\ free_slot' = slot
        /\ free_body' = is_free_body(slot)
    /\ free_pc' = "query"
    /\ UNCHANGED <<free_resp, free_failed, free_result>>
    /\ UNCHANGED outside_free

\* lines 54-58: the query returns a response
IsFreeReturn ==
    /\ free_pc = "query"
    /\ \E resp \in FreeBusyResponses :
        /\ free_resp' = resp
        /\ free_result' = is_free_on_response(resp)
    /\ free_pc' = "done"
    /\ UNCHANGED <<free_slot, free_body, free_failed>>
    /\ UNCHANGED outside_free

\* lines 54, 59-62: the query raises HttpError
IsFreeHttpError ==
    /\ free_pc = "query"
    /\ free_failed' = TRUE
    /\ free_result' = is_free_on_http_error
    /\ free_pc' = "done"
    /\ UNCHANGED <<free_slot, free_body, free_resp>>
    /\ UNCHANGED outside_free

FreeNext == IsFreeCall \/ IsFreeReturn \/ IsFreeHttpError

FreeSpec == FreeInit /\ [][FreeNext]_vars

-----------------------------------------------------------------------------
(* find_free_slots and run_on_latest_email: the calls as a state machine *)

\* Before the call nothing has run
AgentInit == Init

\* src/server/main.py lines 116-122 and calendar_service.py lines 11-19: a
\* call of find_free_slots on its own
FindFreeSlotsCall ==
    /\ tool_pc = "idle"
    /\ agent_pc = "idle"
    /\ \E minutes \in ToolDurations : duration_minutes' = minutes
    /\ tool_pc' = "listing"
    /\ UNCHANGED <<busy_slots, current_time, free_slots>>
    /\ UNCHANGED agent_vars
    /\ UNCHANGED outside_agent

\* lines 22-31: the calendar lists the events; the search starts at 09:00
ListEventsReturn ==
    /\ tool_pc = "listing"
    /\ \E events \in EventLists : busy_slots' = events
    /\ current_time' = start_of_day
    /\ tool_pc' = "loop"
    /\ UNCHANGED <<duration_minutes, free_slots>>
    /\ UNCHANGED agent_vars
    /\ UNCHANGED outside_agent

\* lines 22-28: the listing raises HttpError, which nothing catches
ListEventsError ==
    /\ tool_pc = "listing"
    /\ free_slots' = RaisedValue("HttpError")
    /\ tool_pc' = "raised"
    /\ UNCHANGED <<busy_slots, duration_minutes, current_time>>
    /\ UNCHANGED agent_vars
    /\ UNCHANGED outside_agent

\* lines 33-43: an iteration of the while loop that meets an overlapping
\* event and jumps to its end
LoopJump ==
    /\ tool_pc = "loop"
    /\ fits(current_time, duration_minutes)
    /\ LET i == stopping_event(busy_slots, 1, current_time, duration_minutes)
       IN  /\ i # 0
           /\ has_datetimes(busy_slots[i])
           /\ current_time' = fromisoformat(busy_slots[i].end.dateTime)
    /\ UNCHANGED <<tool_pc, busy_slots, duration_minutes, free_slots>>
    /\ UNCHANGED agent_vars
    /\ UNCHANGED outside_agent

\* lines 33-37: an iteration that meets an event without dateTime
LoopRaise ==
    /\ tool_pc = "loop"
    /\ fits(current_time, duration_minutes)
    /\ LET i == stopping_event(busy_slots, 1, current_time, duration_minutes)
       IN  /\ i # 0
           /\ ~has_datetimes(busy_slots[i])
    /\ free_slots' = RaisedValue("TypeError")
    /\ tool_pc' = "raised"
    /\ UNCHANGED <<busy_slots, duration_minutes, current_time>>
    /\ UNCHANGED agent_vars
    /\ UNCHANGED outside_agent

\* lines 33-46: an iteration that meets no overlapping event
LoopReturn ==
    /\ tool_pc = "loop"
    /\ fits(current_time, duration_minutes)
    /\ stopping_event(busy_slots, 1, current_time, duration_minutes) = 0
    /\ free_slots' = DatetimeValue(current_time)
    /\ tool_pc' = "returned"
    /\ UNCHANGED <<busy_slots, duration_minutes, current_time>>
    /\ UNCHANGED agent_vars
    /\ UNCHANGED outside_agent

\* lines 33, 48: the candidate no longer ends by 17:00
LoopExit ==
    /\ tool_pc = "loop"
    /\ ~fits(current_time, duration_minutes)
    /\ free_slots' = None
    /\ tool_pc' = "returned"
    /\ UNCHANGED <<busy_slots, duration_minutes, current_time>>
    /\ UNCHANGED agent_vars
    /\ UNCHANGED outside_agent

\* agent_service.py lines 90-117: the call reads the latest email and the
\* analysis; it ends there or goes on to find_free_slots()
RunOnLatestEmail ==
    /\ agent_pc = "idle"
    /\ tool_pc = "idle"
    /\ \E input \in AgentInputs :
        /\ agent_input' = input
        /\ IF result_before_calendar(input) # NoValue
           THEN /\ agent_result' = result_before_calendar(input)
                /\ agent_pc' = "done"
                /\ UNCHANGED <<tool_pc, duration_minutes>>
           ELSE /\ agent_pc' = "calendar"
                /\ tool_pc' = "listing"
                /\ duration_minutes' = DefaultDurationMinutes
                /\ UNCHANGED agent_result
    /\ UNCHANGED <<busy_slots, current_time, free_slots, sent_replies>>
    /\ UNCHANGED outside_agent

\* lines 118-143: find_free_slots has returned
AfterFindFreeSlots ==
    /\ agent_pc = "calendar"
    /\ tool_pc = "returned"
    /\ LET after == result_after_calendar(agent_input, free_slots)
       IN  /\ agent_result' = after.result
           /\ sent_replies' = sent_replies \o after.replies
    /\ agent_pc' = "done"
    /\ UNCHANGED agent_input
    /\ UNCHANGED tool_vars
    /\ UNCHANGED outside_agent

\* line 117: find_free_slots has raised, and the agent catches nothing there
FindFreeSlotsRaised ==
    /\ agent_pc = "calendar"
    /\ tool_pc = "raised"
    /\ agent_result' = free_slots
    /\ agent_pc' = "done"
    /\ UNCHANGED <<agent_input, sent_replies>>
    /\ UNCHANGED tool_vars
    /\ UNCHANGED outside_agent

\* The steps of the while loop
LoopStep == LoopJump \/ LoopRaise \/ LoopReturn \/ LoopExit

AgentNext ==
    \/ FindFreeSlotsCall
    \/ ListEventsReturn
    \/ ListEventsError
    \/ LoopJump
    \/ LoopRaise
    \/ LoopReturn
    \/ LoopExit
    \/ RunOnLatestEmail
    \/ AfterFindFreeSlots
    \/ FindFreeSlotsRaised

AgentSpec == AgentInit /\ [][AgentNext]_vars

\* A call that has started keeps running: the interpreter takes every step
\* of the listing and of the loop that is enabled
AgentFairSpec ==
    /\ AgentSpec
    /\ WF_vars(LoopStep)
    /\ WF_vars(ListEventsReturn \/ ListEventsError)

-----------------------------------------------------------------------------
(* find_free_time_slots: the call as a state machine *)

\* Before the call nothing has run
ServiceInit == Init

\* lines 215-225: the call; without a service it returns [] at once
FindFreeTimeSlots ==
    /\ svc_pc = "idle"
    /\ \E args \in ServiceArguments :
        /\ svc_args' = args
        /\ svc_pc' = IF args.service THEN "events" ELSE "done"
    /\ UNCHANGED <<svc_events, svc_result>>
    /\ UNCHANGED outside_svc

\* lines 73-83, 220-264: get_events hands over the events of the period
GetEventsReturn ==
    /\ svc_pc = "events"
    /\ \E events \in ServiceEventLists(svc_args) :
        /\ svc_events' = events
        /\ svc_result' = find_free_time_slots(svc_args, events)
    /\ svc_pc' = "done"
    /\ UNCHANGED svc_args
    /\ UNCHANGED outside_svc

\* lines 84-86, 220-264: the listing fails and get_events hands over []
GetEventsError ==
    /\ svc_pc = "events"
    /\ svc_events' = <<>>
    /\ svc_result' = find_free_time_slots(svc_args, <<>>)
    /\ svc_pc' = "done"
    /\ UNCHANGED svc_args
    /\ UNCHANGED outside_svc

ServiceNext == FindFreeTimeSlots \/ GetEventsReturn \/ GetEventsError

ServiceSpec == ServiceInit /\ [][ServiceNext]_vars

-----------------------------------------------------------------------------
(* /auth/google and /auth/callback: the requests as a state machine *)

\* Before any request
OAuthInit == Init

\* lines 33-46: /auth/google saves the state it issued in the session of
\* the browser and redirects to the consent page
auth_google ==
    /\ \E browser \in Browsers : \E state \in IssuedStates :
        /\ oauth_session' = [oauth_session EXCEPT ![browser] = state]
        /\ oauth_last' = Answered("google", browser, state, 307)
    /\ UNCHANGED token_store
    /\ UNCHANGED outside_oauth

\* lines 48-78: /auth/callback, with the state and the code of the request
\* and what the token endpoint and the profile answer
auth_callback ==
    /\ \E browser \in Browsers : \E state \in States :
       \E exchange \in Exchanges :
        LET saved_state == oauth_session[browser]
        IN  IF state_rejected(saved_state, state)
            THEN /\ oauth_last' = Answered("callback", browser, state, 400)
                 /\ UNCHANGED token_store
            ELSE IF ~exchange.ok
            THEN /\ oauth_last' = Answered("callback", browser, state, 500)
                 /\ UNCHANGED token_store
            ELSE IF persisted(token_store, exchange) = token_store
                    /\ ~token_store[exchange.user_email].present
            THEN /\ oauth_last' = Answered("callback", browser, state, 500)
                 /\ UNCHANGED token_store
            ELSE /\ oauth_last' = Answered("callback", browser, state, 307)
                 /\ token_store' = persisted(token_store, exchange)
    /\ UNCHANGED oauth_session
    /\ UNCHANGED outside_oauth

OAuthNext == auth_google \/ auth_callback

OAuthSpec == OAuthInit /\ [][OAuthNext]_vars

-----------------------------------------------------------------------------
(* /gmail/peek_one_and_reply: the requests as a state machine *)

\* The account is connected (a row in the Token table) or not
GmailInit ==
    /\ CallAtRest
    /\ MergeAtRest
    /\ FreeAtRest
    /\ ToolAtRest
    /\ AgentAtRest
    /\ ServiceAtRest
    /\ GmailAtRest
    /\ oauth_session = [b \in Browsers |-> NoState]
    /\ oauth_last = NoRequestYet
    /\ \E connected \in BOOLEAN :
        token_store =
            [u \in UserEmails |->
                IF connected /\ u = "ann@example.com"
                THEN Token("at1", "rt1") ELSE NoRow]

\* A message arrives in the inbox, unread
MailArrives ==
    /\ \E m \in Messages :
        /\ mailbox[m] = NotArrived
        /\ \A older \in Messages : older < m => mailbox[older] # NotArrived
        /\ mailbox' = [mailbox EXCEPT ![m] = {"INBOX", "UNREAD"}]
    /\ UNCHANGED <<account_labels, reply_count, gmail_last>>
    /\ UNCHANGED outside_gmail

\* The user opens a message, which takes its UNREAD label away
UserReads ==
    /\ \E m \in Messages :
        /\ "UNREAD" \in mailbox[m]
        /\ mailbox' = [mailbox EXCEPT ![m] = mailbox[m] \ {"UNREAD"}]
    /\ UNCHANGED <<account_labels, reply_count, gmail_last>>
    /\ UNCHANGED outside_gmail

\* main.py lines 46-76: one request, up to the point where a Gmail call
\* fails, if one does
api_peek_and_reply ==
    /\ \E failure \in FailurePoints :
        LET msgs == list_unread(mailbox)
            m == msgs[1]
            processing == add_labels(mailbox, account_labels, m,
                                     {"ai/processing"}, {})
            labels1 == ensure_labels(account_labels, {"ai/processing"})
            labels2 == ensure_labels(labels1, {"ai/finished"})
            finished == add_labels(processing, labels2, m,
                                   {"ai/finished"}, {"ai/processing"})
        IN  IF \A u \in UserEmails : ~token_store[u].present
            THEN /\ gmail_last' = [status |-> 400, replied_to |-> 0]
                 /\ UNCHANGED <<mailbox, account_labels, reply_count>>
            ELSE IF msgs = <<>>
            THEN /\ gmail_last' = [status |-> 200, replied_to |-> 0]
                 /\ UNCHANGED <<mailbox, account_labels, reply_count>>
            ELSE IF failure = "get_message"
            THEN /\ gmail_last' = [status |-> 500, replied_to |-> 0]
                 /\ UNCHANGED <<mailbox, account_labels, reply_count>>
            ELSE IF failure = "send"
            THEN /\ gmail_last' = [status |-> 500, replied_to |-> 0]
                 /\ mailbox' = processing
                 /\ account_labels' = labels1
                 /\ UNCHANGED reply_count
            ELSE /\ reply_count[m] < MaxReplies
                 /\ reply_count' = [reply_count EXCEPT ![m] = @ + 1]
                 /\ IF failure = "finish"
                    THEN /\ gmail_last' = [status |-> 500, replied_to |-> 0]
                         /\ mailbox' = processing
                         /\ account_labels' = labels1
                    ELSE /\ gmail_last' = [status |-> 200, replied_to |-> m]
                         /\ mailbox' = finished
                         /\ account_labels' = labels2
    /\ UNCHANGED outside_gmail

GmailNext == MailArrives \/ UserReads \/ api_peek_and_reply

GmailSpec == GmailInit /\ [][GmailNext]_vars

-----------------------------------------------------------------------------
(* Vocabulary of the properties *)

Done == pc = "done"

ReturnedSlots == outcome.slots

\* The instant of an ISO string read on the clock of the request zone
LocalOf(iso) == astimezone(iso_to_dt(iso), request.tz)

\* The clock reading an ISO string prints
WallOf(iso) == iso.wall

AnchorLocal == LocalOf(request.anchor_iso)

\* The invariants a request must satisfy (spec section 3)
ValidRequest(req) ==
    /\ req.duration_min > 0
    /\ req.step_minutes > 0
    /\ req.days >= 1
    /\ req.working_start < req.working_end

WellFormedBusy(b) ==
    /\ b.start.ok
    /\ b.end.ok
    /\ Instant(b.start) < Instant(b.end)

AllBusyWellFormed == \A j \in 1..Len(busy_raw) : WellFormedBusy(busy_raw[j])

\* busy_intervals of line 140 for the call of the state
BusyIntervals == merge_intervals(convert_busy(busy_raw, request.tz))

\* The ranges the pointer walk hands to generate_aligned_starts on the
\* searched day at offset n
DayRanges(n) ==
    day_ranges(request, AnchorLocal, BusyIntervals, date(AnchorLocal) + n)

\* The ranges walked on all the searched days
WalkedRanges ==
    UNION { LET ranges == DayRanges(n)
            IN  { ranges[k] : k \in 1..Len(ranges) } : n \in 0..request.days }

\* The slot came out of one of the ranges walked
FromWalkedRange(slot, walked) ==
    \E range \in walked :
        /\ range[1] <= WallOf(slot.start_iso)
        /\ WallOf(slot.end_iso) <= range[2]

-----------------------------------------------------------------------------
(* C1 *)

\* C1: with the FreeBusy query answered, every busy interval well formed
\* (start < end) and a positive duration, no returned slot [s, e) overlaps a
\* busy interval [b, c): e <= b or s >= c, on the absolute timeline.
C1_NoSlotOverlapsBusy ==
    (Done /\ ~fb_failed /\ AllBusyWellFormed /\ request.duration_min > 0) =>
        \A i \in 1..Len(ReturnedSlots) : \A j \in 1..Len(busy_raw) :
            \/ Instant(ReturnedSlots[i].end_iso) <= Instant(busy_raw[j].start)
            \/ Instant(ReturnedSlots[i].start_iso) >= Instant(busy_raw[j].end)

\* Without a clock change in the searched days no returned slot overlaps a
\* busy interval.
NoSlotOverlapsBusyWithoutTransition ==
    request.tz = IndianapolisSeptember => C1_NoSlotOverlapsBusy

-----------------------------------------------------------------------------
(* C2 *)

\* C2: every returned slot on the anchor's calendar day starts strictly
\* after the anchor instant, also when the anchor lies on a grid boundary
\* inside the working window.
C2_AnchorStrictlyBefore ==
    (Done /\ ValidRequest(request)) =>
        \A i \in 1..Len(ReturnedSlots) :
            date(LocalOf(ReturnedSlots[i].start_iso)) = date(AnchorLocal)
                => LocalOf(ReturnedSlots[i].start_iso) > AnchorLocal

-----------------------------------------------------------------------------
(* C3 *)

\* C3: no returned slot falls on a calendar day at offset >= days from the
\* anchor's calendar day.
C3_OnlyHorizonDays ==
    (Done /\ ValidRequest(request)) =>
        \A i \in 1..Len(ReturnedSlots) :
            date(LocalOf(ReturnedSlots[i].start_iso)) - date(AnchorLocal)
                < request.days

-----------------------------------------------------------------------------
(* C4 *)

-----------------------------------------------------------------------------
(* C5 *)

\* C5: the number of returned slots never exceeds max_suggestions, for
\* every max_suggestions >= 0 and every input.
C5_CapRespected == Done => Len(ReturnedSlots) <= request.max_suggestions

\* A call that returned exactly the default cap of slots.
C5_Witness ==
    /\ Done
    /\ request.max_suggestions = DefaultMaxSuggestions
    /\ Len(ReturnedSlots) = DefaultMaxSuggestions

-----------------------------------------------------------------------------
(* C6 *)

\* C6: a request that violates an invariant (duration <= 0, step <= 0,
\* days < 1, working_start >= working_end) ends in a ConfigurationError and
\* returns no slot list.
C6_InvalidRequestRejected ==
    (Done /\ ~ValidRequest(request)) => outcome.kind = "ConfigurationError"

-----------------------------------------------------------------------------
(* C7 *)

\* C7: when a supplied busy interval is malformed (unparseable, or
\* start >= end) the call ends in an error rather than returning slots
\* (stated for a valid request with a positive cap).
C7_MalformedBusyRejected ==
    (Done /\ ValidRequest(request) /\ request.max_suggestions > 0
          /\ ~fb_failed /\ ~AllBusyWellFormed)
        => outcome.kind # "ok"

-----------------------------------------------------------------------------
(* C8 *)

\* C8: when the FreeBusy query fails the call does not return a slot list
\* computed as if the calendar had no busy time (stated for a valid request
\* with a positive cap).
C8_FreeBusyFailureVisible ==
    (Done /\ ValidRequest(request) /\ request.max_suggestions > 0 /\ fb_failed)
        => outcome.kind # "ok"

-----------------------------------------------------------------------------
(* C9 *)

\* C9: for every returned slot, end - start is exactly duration_min minutes.
C9_DurationExact ==
    Done =>
        \A i \in 1..Len(ReturnedSlots) :
            Instant(ReturnedSlots[i].end_iso) - Instant(ReturnedSlots[i].start_iso)
                = Minutes(request.duration_min)

\* Without a clock change in the searched days every returned slot lasts
\* exactly duration_min minutes.
DurationExactWithoutTransition ==
    request.tz = IndianapolisSeptember => C9_DurationExact

-----------------------------------------------------------------------------
(* C10 *)

\* C10: for a valid request and well-formed busy intervals, the returned
\* sequence is in strictly ascending start order and holds no two slots with
\* the same (start, end).
C10_AscendingUnique ==
    (Done /\ ValidRequest(request) /\ AllBusyWellFormed) =>
        \A i, j \in 1..Len(ReturnedSlots) :
            i < j =>
                /\ Instant(ReturnedSlots[i].start_iso)
                       < Instant(ReturnedSlots[j].start_iso)
                /\ <<ReturnedSlots[i].start_iso, ReturnedSlots[i].end_iso>>
                       # <<ReturnedSlots[j].start_iso, ReturnedSlots[j].end_iso>>

\* Without a clock change in the searched days the returned sequence of a
\* valid call is strictly ascending and free of duplicates.
AscendingUniqueWithoutTransition ==
    request.tz = IndianapolisSeptember => C10_AscendingUnique

-----------------------------------------------------------------------------
(* C11 *)

\* The same request with an unbounded cap
uncapped(req) == [req EXCEPT !.max_suggestions = Unbounded]

\* What the call returns on the same input with an unbounded cap
AllSlots == suggest_slots(uncapped(request), busy_raw).slots

\* The result is the first max_suggestions elements of the unbounded result.
PrefixOfUnbounded(all) ==
    ReturnedSlots = Take(all, request.max_suggestions)

\* No slot of the unbounded result that was left out starts before a
\* returned one, on the absolute timeline.
NoEarlierSlotLeftOut(all) ==
    \A i \in 1..Len(ReturnedSlots) : \A j \in 1..Len(all) :
        Instant(all[j].start_iso) < Instant(ReturnedSlots[i].start_iso)
            => \E k \in 1..Len(ReturnedSlots) : ReturnedSlots[k] = all[j]

\* C11: for a valid request with cap k and well-formed busy intervals, the
\* result is the first k elements of the result with an unbounded cap, and
\* these are the k chronologically earliest: with k = 1 the one returned slot
\* is the earliest of all.
C11_EarliestPrefix ==
    (Done /\ ValidRequest(request) /\ AllBusyWellFormed) =>
        LET all == AllSlots
        IN  /\ PrefixOfUnbounded(all)
            /\ NoEarlierSlotLeftOut(all)

\* For a valid request and well-formed busy intervals the result is always
\* the prefix of the unbounded result, in the order the code emits it.
PrefixOfUnboundedAlways ==
    (Done /\ ValidRequest(request) /\ AllBusyWellFormed) =>
        PrefixOfUnbounded(AllSlots)

\* Without a clock change in the searched days the capped result is the
\* chronologically earliest prefix of the unbounded result.
EarliestPrefixWithoutTransition ==
    request.tz = IndianapolisSeptember => C11_EarliestPrefix

-----------------------------------------------------------------------------
(* C12 *)

\* The grid-aligned readings of the clock of the request zone inside the
\* working window of the searched day at offset n (grid dividing 60)
GridStarts(n) ==
    LET d == date(AnchorLocal) + n
    IN  { Days(d) + Minutes(m) :
            m \in { k \in (request.working_start \div Minutes(1))
                          ..(request.working_end \div Minutes(1)) :
                    k % request.step_minutes = 0 } }

\* The reading s exists on the clock of the request zone (it is not skipped)
ExistingReading(s) == LocalOf(dt_to_iso(s, request.tz)) = s

\* [s, s + duration) lies after the anchor and inside the working window of
\* the day at offset n, and overlaps no busy interval; touching a busy
\* interval is allowed.  All comparisons are on the absolute timeline.
FreeStart(s, n) ==
    LET d == date(AnchorLocal) + n
        window == day_work_range(request, d)
        start == Instant(dt_to_iso(s, request.tz))
        end == start + Minutes(request.duration_min)
    IN  /\ ExistingReading(s)
        /\ start > Instant(request.anchor_iso)
        /\ start >= Instant(dt_to_iso(window[1], request.tz))
        /\ end <= Instant(dt_to_iso(window[2], request.tz))
        /\ \A j \in 1..Len(busy_raw) :
               \/ end <= Instant(busy_raw[j].start)
               \/ start >= Instant(busy_raw[j].end)

-----------------------------------------------------------------------------
(* Vocabulary of the merge properties *)

MergeReturned == merge_pc # "start"

WellFormedIntervals(seq) == \A k \in 1..Len(seq) : seq[k][1] < seq[k][2]

\* The datetimes of Times a list of intervals [start, end) covers; every
\* endpoint is in Times, so two lists cover the same points exactly when
\* they cover the same datetimes of Times
Covered(seq) ==
    { t \in Times : \E k \in 1..Len(seq) : seq[k][1] <= t /\ t < seq[k][2] }

-----------------------------------------------------------------------------
(* C13 *)

\* C13: for every input of intervals with start < end, the output of
\* _merge_intervals is sorted by start and no output interval ends after a
\* later one starts: for i before j, i.end > j.start never holds.
C13_SortedNonOverlapping ==
    (MergeReturned /\ WellFormedIntervals(merge_arg)) =>
        \A i, j \in 1..Len(merge_out) :
            i < j => /\ merge_out[i][1] <= merge_out[j][1]
                     /\ ~(merge_out[i][2] > merge_out[j][1])

\* An input given out of order whose output holds two intervals.
C13_Witness ==
    /\ MergeReturned
    /\ WellFormedIntervals(merge_arg)
    /\ Len(merge_arg) >= 2
    /\ merge_arg[1][1] > merge_arg[2][1]
    /\ Len(merge_out) = 2

-----------------------------------------------------------------------------
(* C14 *)

\* C14: for every input of well-formed intervals the output covers exactly
\* the points the input covers, and an empty input gives an empty output.
C14_SameUnion ==
    (MergeReturned /\ WellFormedIntervals(merge_arg)) =>
        /\ Covered(merge_out) = Covered(merge_arg)
        /\ (merge_arg = <<>> => merge_out = <<>>)

\* [10:00, 11:00) and [10:30, 12:00) were merged into exactly [10:00, 12:00).
C14_Witness ==
    /\ MergeReturned
    /\ merge_arg = << <<At(0, 10, 0, 0), At(0, 11, 0, 0)>>,
                      <<At(0, 10, 30, 0), At(0, 12, 0, 0)>> >>
    /\ merge_out = << <<At(0, 10, 0, 0), At(0, 12, 0, 0)>> >>

-----------------------------------------------------------------------------
(* C15 *)

\* C15: for every input of well-formed intervals, in any order, merging the
\* output again gives the output: _merge_intervals is idempotent.
C15_Idempotent ==
    (merge_pc = "remerged" /\ WellFormedIntervals(merge_arg)) =>
        merge_out2 = merge_out

\* The second call ran on an output that differs from the input it came from.
C15_Witness ==
    /\ merge_pc = "remerged"
    /\ WellFormedIntervals(merge_arg)
    /\ Len(merge_arg) = 3
    /\ Len(merge_out) = 2
    /\ merge_out2 = merge_out

-----------------------------------------------------------------------------
(* C16 *)

\* C16: an interval that starts exactly where the running merged interval
\* ends is merged into it, so consecutive output intervals i, j always
\* satisfy i.end < j.start strictly.
C16_TouchingCoalesce ==
    MergeReturned =>
        \A k \in 1..(Len(merge_out) - 1) : merge_out[k][2] < merge_out[k + 1][1]

\* Two touching intervals, [a, b) and [b, c), came out as the one [a, c).
C16_Witness ==
    /\ MergeReturned
    /\ Len(merge_arg) = 2
    /\ WellFormedIntervals(merge_arg)
    /\ merge_arg[1][2] = merge_arg[2][1]
    /\ merge_out = << <<merge_arg[1][1], merge_arg[2][2]>> >>

-----------------------------------------------------------------------------
(* C17 *)

\* (day_start, day_end) of lines 160-164 for the searched day at offset n
DayWindow(n) ==
    LET single_day == date(AnchorLocal) + n
    IN  <<day_start_of(request, AnchorLocal, single_day),
          day_work_range(request, single_day)[2]>>

\* overlapping of line 172 for the searched day at offset n
DayBusy(n) == overlapping_of(BusyIntervals, DayWindow(n)[1], DayWindow(n)[2])

\* How many intervals [start, end) of a list hold the point p
Holding(seq, p) ==
    Cardinality({ k \in 1..Len(seq) : seq[k][1] <= p /\ p < seq[k][2] })

\* Every endpoint of a day with window w, busy intervals b and candidate
\* ranges r: the intervals are half open, so what holds between two
\* neighbouring endpoints holds at the lower one
DayPoints(w, b, r) ==
    {w[1], w[2]}
        \cup { b[k][i] : k \in 1..Len(b), i \in 1..2 }
        \cup { r[k][i] : k \in 1..Len(r), i \in 1..2 }

\* C17: for a valid request and well-formed busy intervals, on every
\* searched day each point of the window lies in exactly one candidate range
\* or in exactly one merged, clipped busy interval and never in both, no
\* point outside the window lies in any of them, and a candidate range of
\* zero width yields no slot start.
C17_RangesAndBusyPartitionDay ==
    (Done /\ ValidRequest(request) /\ AllBusyWellFormed) =>
        \A n \in 0..request.days :
            LET window == DayWindow(n)
                busy == DayBusy(n)
                ranges == DayRanges(n)
            IN  /\ \A p \in DayPoints(window, busy, ranges) :
                       Holding(ranges, p) + Holding(busy, p)
                           = IF window[1] <= p /\ p < window[2] THEN 1 ELSE 0
                /\ \A k \in 1..Len(ranges) :
                       ranges[k][1] >= ranges[k][2] =>
                           generate_aligned_starts(
                               ranges[k][1], ranges[k][2],
                               request.duration_min, request.step_minutes) = <<>>

\* A searched day with two busy blocks, the first one holding the anchor, so
\* that the first candidate range has zero width, and slots after them.
C17_Witness ==
    /\ Done
    /\ ValidRequest(request)
    /\ AllBusyWellFormed
    /\ Len(DayBusy(0)) = 2
    /\ DayRanges(0)[1][1] = DayRanges(0)[1][2]
    /\ DayRanges(0)[2][1] < DayRanges(0)[2][2]
    /\ Len(ReturnedSlots) >= 1

-----------------------------------------------------------------------------
(* C18 *)

\* The parts of the busy entry b inside the working windows of the searched
\* days from offset n on, as entries of a FreeBusy reply; a part of no width
\* is dropped
RECURSIVE EntryInsideWindows(_, _)
EntryInsideWindows(b, n) ==
    IF n > request.days THEN <<>>
    ELSE LET window == day_work_range(request, date(AnchorLocal) + n)
             start == Max(LocalOf(b.start), window[1])
             end == Min(LocalOf(b.end), window[2])
         IN  (IF start < end
              THEN << Busy(dt_to_iso(start, request.tz),
                           dt_to_iso(end, request.tz)) >>
              ELSE <<>>)
             \o EntryInsideWindows(b, n + 1)

\* The busy list with every entry replaced by its parts inside the windows
RECURSIVE InsideWindows(_)
InsideWindows(raw) ==
    IF raw = <<>> THEN <<>>
    ELSE EntryInsideWindows(Head(raw), 0) \o InsideWindows(Tail(raw))

\* C18: with well-formed busy intervals, replacing every busy interval by its
\* intersections with the working windows of the searched days (dropping
\* what lies outside all of them) leaves the outcome of the call unchanged.
C18_BusyOutsideWindowsIgnored ==
    (Done /\ AllBusyWellFormed) =>
        outcome = suggest_slots(request, InsideWindows(busy_raw))

\* A call that returned slots although a busy entry reached outside the
\* working window of its day on both sides (it lay outside the window of
\* every other searched day altogether).
C18_Witness ==
    /\ Done
    /\ ValidRequest(request)
    /\ AllBusyWellFormed
    /\ \E j \in 1..Len(busy_raw) :
           LET window == day_work_range(request, date(AnchorLocal))
           IN  /\ LocalOf(busy_raw[j].start) < window[1]
               /\ LocalOf(busy_raw[j].end) > window[2]
               /\ Len(EntryInsideWindows(busy_raw[j], 0)) = 1
    /\ InsideWindows(busy_raw) # busy_raw
    /\ Len(ReturnedSlots) >= 1

-----------------------------------------------------------------------------
(* C19 *)

-----------------------------------------------------------------------------
(* C20 *)

\* A call with days = 2 and a cap of at least one, answered with a busy
\* interval that covers the whole working window of the anchor's day and
\* with no busy time in the working window of the next day
FirstDayBusyNextDayFree ==
    LET first == day_work_range(request, date(AnchorLocal))
        next == day_work_range(request, date(AnchorLocal) + 1)
    IN  /\ Done
        /\ ~fb_failed
        /\ ValidRequest(request)
        /\ request.days = 2
        /\ request.max_suggestions >= 1
        /\ AllBusyWellFormed
        /\ \E j \in 1..Len(busy_raw) :
               /\ LocalOf(busy_raw[j].start) <= first[1]
               /\ LocalOf(busy_raw[j].end) >= first[2]
        /\ \A j \in 1..Len(busy_raw) :
               \/ LocalOf(busy_raw[j].end) <= next[1]
               \/ LocalOf(busy_raw[j].start) >= next[2]

NoSlotOnAnchorDay ==
    \A i \in 1..Len(ReturnedSlots) :
        date(LocalOf(ReturnedSlots[i].start_iso)) # date(AnchorLocal)

\* C20 as stated: in that case no slot is emitted on the first day and the
\* first returned slot starts at working_start of the second day.
C20_FirstSlotAtNextWorkStart ==
    FirstDayBusyNextDayFree =>
        /\ NoSlotOnAnchorDay
        /\ Len(ReturnedSlots) >= 1
        /\ LocalOf(ReturnedSlots[1].start_iso)
               = day_work_range(request, date(AnchorLocal) + 1)[1]

\* C20 amended: in that case no slot is emitted on the first day and the
\* first returned slot starts at the first grid instant at or after
\* working_start of the second day, the grid being counted in steps of
\* step_minutes from the top of the hour of working_start.
C20_FirstSlotAtNextAlignedStart ==
    FirstDayBusyNextDayFree =>
        /\ NoSlotOnAnchorDay
        /\ Len(ReturnedSlots) >= 1
        /\ LET work_start == day_work_range(request, date(AnchorLocal) + 1)[1]
               top == work_start - (work_start % Hours(1))
               s == LocalOf(ReturnedSlots[1].start_iso)
           IN  /\ s >= work_start
               /\ s < work_start + Minutes(request.step_minutes)
               /\ (s - top) % Minutes(request.step_minutes) = 0

\* Such a call with working_start off the grid (09:10): the first returned
\* slot is on the second day, after working_start.
C20_Witness ==
    /\ FirstDayBusyNextDayFree
    /\ minute_of(request.working_start) % request.step_minutes # 0
    /\ Len(ReturnedSlots) >= 1
    /\ LocalOf(ReturnedSlots[1].start_iso)
           > day_work_range(request, date(AnchorLocal) + 1)[1]
    /\ date(LocalOf(ReturnedSlots[1].start_iso)) = date(AnchorLocal) + 1

-----------------------------------------------------------------------------
(* C21 *)

\* No range walked on a searched day is as long as the duration: every
\* working window is fully busy, or its gaps are all too short
NoGapFits ==
    \A range \in WalkedRanges :
        range[2] - range[1] < Minutes(request.duration_min)

\* C21: a valid request with well-formed busy intervals that cannot be
\* satisfied (no gap of a searched working window fits the duration) makes
\* the call return an empty sequence, not raise an error.
C21_UnsatisfiableReturnsEmpty ==
    (Done /\ ~fb_failed /\ ValidRequest(request) /\ AllBusyWellFormed
          /\ NoGapFits) =>
        outcome = Returned(<<>>)

\* A call that returned the empty sequence with every searched working
\* window fully busy.
C21_Witness ==
    /\ Done
    /\ ~fb_failed
    /\ ValidRequest(request)
    /\ AllBusyWellFormed
    /\ request.max_suggestions >= 1
    /\ \A range \in WalkedRanges : range[1] = range[2]
    /\ outcome = Returned(<<>>)

-----------------------------------------------------------------------------
(* C23: is_free answers from the busy list of the primary calendar *)

FreeDone == free_pc = "done"

\* The query that was sent asks about the slot's range on the primary
\* calendar
AskedAboutSlot ==
    /\ free_body.timeMin = free_slot.start_iso
    /\ free_body.timeMax = free_slot.end_iso
    /\ \E i \in DOMAIN free_body.items : free_body.items[i].id = "primary"

\* The busy blocks a response lists for the primary calendar
PrimaryBusyBlocks(resp) ==
    { block \in BusyEntriesSeptember :
        /\ "calendars" \in DOMAIN resp
        /\ "primary" \in DOMAIN resp.calendars
        /\ "busy" \in DOMAIN resp.calendars.primary
        /\ \E i \in DOMAIN resp.calendars.primary.busy :
               resp.calendars.primary.busy[i] = block }

\* C23: when the FreeBusy query returns a response, the query was about the
\* slot's range on the primary calendar, and is_free returns True if the
\* response lists no busy block for the primary calendar and False if it
\* lists at least one
C23_FreeIffNoBusyBlock ==
    (FreeDone /\ ~free_failed) =>
        /\ AskedAboutSlot
        /\ free_result \in BOOLEAN
        /\ free_result = TRUE <=> PrimaryBusyBlocks(free_resp) = {}

\* Both answers have been given: False on a response with a busy block of
\* the primary calendar is one case, True on a response that lists an empty
\* busy list for it is the other
C23_Witness ==
    /\ FreeDone /\ ~free_failed
    /\ free_result = FALSE
    /\ PrimaryBusyBlocks(free_resp) # {}

C23_WitnessFree ==
    /\ FreeDone /\ ~free_failed
    /\ free_result = TRUE
    /\ "calendars" \in DOMAIN free_resp
    /\ "primary" \in DOMAIN free_resp.calendars
    /\ "busy" \in DOMAIN free_resp.calendars.primary

-----------------------------------------------------------------------------
(* C24: a failed query never makes a slot free *)

-----------------------------------------------------------------------------
(* C25: the agent replies when the calendar has a free slot *)

AgentDone == agent_pc = "done"

\* The analysis reported a meeting and the agent went on to the calendar
MeetingSuggested == result_before_calendar(agent_input) = NoValue

SlotFound == free_slots.kind = "datetime"

SenderParseable ==
    angle_pairs(agent_input.latest_emails.items[1].from) # {}

\* C25: when the analysis reports isMeetingSuggested, find_free_slots finds
\* a free slot and the sender address is parseable, run_on_latest_email
\* sends one reply proposing that time and returns the status
\* "Action Complete"
C25_ReplyWhenSlotFound ==
    (AgentDone /\ MeetingSuggested /\ SlotFound /\ SenderParseable) =>
        /\ agent_result.status = "Action Complete"
        /\ Len(sent_replies) = 1
        /\ sent_replies[1].time = free_slots

\* What the code does instead: whatever find_free_slots returns, the call
\* ends with "Action Failed" and no reply
ActionAlwaysFails ==
    (AgentDone /\ MeetingSuggested /\ tool_pc = "returned") =>
        /\ agent_result.status = "Action Failed"
        /\ sent_replies = <<>>

-----------------------------------------------------------------------------
(* C26: find_free_slots returns the earliest free start of the day *)

ToolReturned == tool_pc = "returned"

AllTimed == \A i \in DOMAIN busy_slots : has_datetimes(busy_slots[i])

\* Instants a quarter of an hour apart, from 08:00 to 18:00 of the day
DayInstants ==
    { Instant(start_of_day) + Minutes(15 * k) : k \in (0 - 4)..36 }

\* [t, t + duration) and the event's [start, end) have an instant in common
Intersects(t, event) ==
    LET s == Instant(event.start.dateTime)
        e == Instant(event.end.dateTime)
        u == t + Minutes(duration_minutes)
    IN  t < u /\ s < e /\ t < e /\ s < u

\* t is at or after 09:00, t + duration is at or before 17:00 and
\* [t, t + duration) overlaps no event
FreeStartOfDay(t) ==
    /\ t >= Instant(start_of_day)
    /\ t + Minutes(duration_minutes) <= Instant(end_of_day)
    /\ \A i \in DOMAIN busy_slots : ~Intersects(t, busy_slots[i])

\* 09:00 and the ends of the events
SearchPoints ==
    { Instant(start_of_day) }
        \cup { Instant(busy_slots[i].end.dateTime) : i \in DOMAIN busy_slots }

C26_WitnessNone ==
    /\ ToolReturned /\ AllTimed
    /\ free_slots = None
    /\ duration_minutes = 60
    /\ Instant(current_time) < Instant(end_of_day)

\* When None is returned no instant of the day at all is a free start
NoneMeansNoFreeStart ==
    (ToolReturned /\ AllTimed /\ free_slots = None) =>
        \A t \in DayInstants : ~FreeStartOfDay(t)

-----------------------------------------------------------------------------
(* C27: the search loop ends *)

ToolEnded == tool_pc \in {"returned", "raised"}

\* C27: the while loop of find_free_slots ends for every list of events,
\* overlapping, zero-length and inverted ones included: an iteration that
\* does not return moves current_time to a strictly later instant, and a
\* search that has started ends by returning or raising
C27_LoopTerminates ==
    /\ [][LoopJump => Instant(current_time') > Instant(current_time)]_vars
    /\ (tool_pc = "loop") ~> ToolEnded

\* A search that ended after a jump on a list holding a zero-length or an
\* inverted event
C27_Witness ==
    /\ ToolEnded
    /\ current_time # start_of_day
    /\ \E i \in DOMAIN busy_slots :
        /\ has_datetimes(busy_slots[i])
        /\ Instant(busy_slots[i].end.dateTime)
               <= Instant(busy_slots[i].start.dateTime)

-----------------------------------------------------------------------------
(* C28: the free intervals of find_free_time_slots *)

ServiceDone == svc_pc = "done"

\* The busy periods of the events the call was handed
BusyPeriods ==
    { [start |-> Instant(svc_events[i].start.dateTime),
       end |-> Instant(svc_events[i].end.dateTime)] :
        i \in { j \in DOMAIN svc_events : has_datetimes(svc_events[j]) } }

\* The interval and the busy period have an instant in common
MeetsBusy(slot, period) ==
    /\ moment(slot.start) < moment(slot.end)
    /\ period.start < period.end
    /\ moment(slot.start) < period.end
    /\ period.start < moment(slot.end)

\* C28: every interval find_free_time_slots returns is at least
\* duration_minutes long, has no instant in common with any busy period of
\* the events it was handed (overlapping and nested ones included), lies
\* within [start_date, end_date], and each interval ends before the next
\* one starts
C28_FreeIntervalsSound ==
    ServiceDone =>
        /\ \A i \in DOMAIN svc_result :
            LET slot == svc_result[i]
            IN  /\ moment(slot.end) - moment(slot.start)
                       >= Minutes(svc_args.duration_minutes)
                /\ \A period \in BusyPeriods : ~MeetsBusy(slot, period)
                /\ comparable(slot.start, svc_args.start_date)
                /\ comparable(slot.end, svc_args.end_date)
                /\ moment(svc_args.start_date) <= moment(slot.start)
                /\ moment(slot.end) <= moment(svc_args.end_date)
        /\ \A i \in DOMAIN svc_result : \A j \in DOMAIN svc_result :
            i < j =>
                /\ moment(svc_result[i].start) <= moment(svc_result[j].start)
                /\ moment(svc_result[i].end) <= moment(svc_result[j].start)

\* Two intervals returned around busy periods one of which lies inside the
\* other
C28_Witness ==
    /\ ServiceDone
    /\ Len(svc_result) = 2
    /\ svc_args.duration_minutes > 0
    /\ \E p \in BusyPeriods : \E q \in BusyPeriods :
        /\ p # q
        /\ p.start <= q.start
        /\ q.end < p.end

-----------------------------------------------------------------------------
(* C29: the callback writes tokens only for the state the session holds *)

\* The step is a request to /auth/callback whose state parameter is not
\* the state saved in the session of its browser, or that session holds none
CallbackWithWrongState ==
    /\ oauth_last'.endpoint = "callback"
    /\ \/ oauth_session[oauth_last'.browser] = NoState
       \/ oauth_session[oauth_last'.browser] # oauth_last'.state

\* C29: the Token table changes only in a callback whose state parameter
\* equals the oauth_state that /auth/google saved in the session of the
\* same browser; a callback with another state, or in a session that holds
\* none, is answered 400 and leaves the table as it was
C29_TokensOnlyForSavedState ==
    [][ /\ token_store' # token_store =>
              /\ oauth_last'.endpoint = "callback"
              /\ oauth_session[oauth_last'.browser] \in IssuedStates
              /\ oauth_session[oauth_last'.browser] = oauth_last'.state
        /\ CallbackWithWrongState =>
              /\ oauth_last'.status = 400
              /\ token_store' = token_store ]_vars

\* A callback was answered 400 for a state that is not the one its session
\* holds, after tokens of a user had been stored through another callback
C29_Witness ==
    /\ oauth_last.endpoint = "callback"
    /\ oauth_last.status = 400
    /\ oauth_session[oauth_last.browser] \in IssuedStates
    /\ oauth_last.state \in IssuedStates
    /\ \E u \in UserEmails : token_store[u].present

\* A callback in a session that holds no state was answered 400
C29_WitnessNoSavedState ==
    /\ oauth_last.endpoint = "callback"
    /\ oauth_last.status = 400
    /\ oauth_session[oauth_last.browser] = NoState


-----------------------------------------------------------------------------
(* C30 *)

\* The message was sent an automated reply and carries the label ai/finished
AnsweredAndFinished(m) ==
    /\ reply_count[m] >= 1
    /\ "ai/finished" \in mailbox[m]

\* C30: across any sequence of requests to /gmail/peek_one_and_reply, a
\* message that was replied to and labelled ai/finished is not selected and
\* replied to again, so that no message receives more than one automated reply
C30_NoSecondReply ==
    [][\A m \in Messages :
          AnsweredAndFinished(m) => reply_count'[m] = reply_count[m]]_vars

====
